---- MODULE Spec2Model ----
(***************************************************************************)
(* Model of the per-key serialized build-and-cache coordinator:            *)
(*   app/queue/manager.py         TaskResult, KeyedTaskQueue               *)
(*   app/services/album_service.py get_album_pdf_path                      *)
(*   app/utils/pdf.py             merge_webp_to_pdf                        *)
(*   app/utils/file.py            is_jm_book_exist                         *)
(*   app/api/routes.py            get_pdf, get_pdf_path                    *)
(*   app/utils/lock.py            file_lock                                *)
(*   jmcomic_api_fast/routes/pdf.py get_pdf_info, get_pdf_shard            *)
(* Request threads call get_album_pdf_path; each call submits two tasks    *)
(* (ensure_title, validate_or_build) under the key of its identifier and   *)
(* waits for each.  Worker threads are started and retired by the queue.   *)
(***************************************************************************)
EXTENDS Integers, Sequences, FiniteSets, TLC

\* ------------------------------------------------------------ bounds
\* Number of album identifiers the requests may name.
NumIds == 2

\* Longest title the file-name derivation is applied to.
MaxTitleLen == 2

\* The timeout of file_lock, in poll intervals.
LockTimeout == 2

\* Largest total_pages of an album in the shard routes.
MaxPages == 201

\* The worker_count passed to KeyedTaskQueue.  The executor stores it and
\* never reads it; it is kept small so that the number of active keys can
\* reach and pass it.
worker_count == 1

Ids == 1..NumIds
\* Two request threads (the HTTP handlers); each performs one
\* get_album_pdf_path call.
Callers == {1, 2}
\* title_type values the requests may pass.
TitleTypes == {0, 1, 2}
Steps == {"A", "B"}
\* A task is the closure submitted by caller c at step A (ensure_title)
\* or step B (validate_or_build).
TaskIds == Callers \X Steps
NoTask == <<0, "-">>
\* Queue objects and worker threads are named by the identifier whose key
\* they were created for and a serial number; every submit can create one
\* of each.
Slots == {1, 2, 3, 4}
QIds == Ids \X Slots
NoQ == <<0, 0>>
WorkerIds == Ids \X Slots

\* ------------------------------------------------------------ data
\* key = f"album_{jm_album_id}"
Key(i) == <<"album", i>>
Keys == {Key(i) : i \in Ids}

\* Album names as character sequences (the name the provider reports and
\* the title part of the local materials folder).
AlbumName(i) == IF i = 1 THEN <<"a", ":", "b">>
                ELSE IF i = 2 THEN <<"a", "b">>
                ELSE <<"c", "?">>

UnsafeChars == {"\\", "/", ":", "*", "?", "\"", "<", ">", "|"}
IsSafe(ch) == ch \notin UnsafeChars
\* Variant of sanitize: the colon is kept.
sanitizeKeepsColon(name) == SelectSeq(name, LAMBDA ch : IsSafe(ch) \/ ch = ":")
\* ''.join(c for c in name if c not in '\\/:*?"<>|')
sanitize(name) == SelectSeq(name, IsSafe)

\* pdf_filename by title_type; a file name is (bracketed id part, title part),
\* 0 / <<>> standing for "no such part".
PdfFilename(i, title, tt) ==
    IF tt = 0 THEN <<i, <<>>, "id">>
    ELSE IF tt = 1 THEN <<0, sanitize(title), "title">>
    ELSE <<i, sanitize(title), "id_title">>

\* The file name and path as get_album_pdf_path writes them, character by
\* character.  An identifier is written as its digit.
IdStr(i) == IF i = 1 THEN <<"1">> ELSE IF i = 2 THEN <<"2">> ELSE <<"3">>
\* pdf_filename: f"{jm_album_id}.pdf", f"{safe_title}.pdf",
\* f"[{jm_album_id}] {safe_title}.pdf"
pdf_filename(i, title, tt) ==
    IF tt = 0 THEN IdStr(i) \o <<".", "p", "d", "f">>
    ELSE IF tt = 1 THEN sanitize(title) \o <<".", "p", "d", "f">>
    ELSE <<"[">> \o IdStr(i) \o <<"]", " ">> \o sanitize(title) \o <<".", "p", "d", "f">>

\* Directories are sequences of components, "/" first when absolute.
\* os.getcwd() of the server process
Cwd == <<"/", "srv", "app">>
RECURSIVE Normalize(_, _)
\* components of rest appended to acc, ".." stepping up (not above the root)
Normalize(acc, rest) ==
    IF rest = <<>> THEN acc
    ELSE IF Head(rest) = ".."
         THEN Normalize(IF Len(acc) > 1 THEN SubSeq(acc, 1, Len(acc) - 1) ELSE acc, Tail(rest))
         ELSE Normalize(Append(acc, Head(rest)), Tail(rest))
\* Path(pdf_dir).resolve()
Resolve(dir) == IF dir # <<>> /\ Head(dir) = "/" THEN Normalize(<<"/">>, Tail(dir))
                ELSE Normalize(Cwd, dir)
\* pdf_path = str(pdf_dir_path / pdf_filename)
pdf_path(dir, fname) == Append(Resolve(dir), fname)

Paths == {PdfFilename(i, AlbumName(i), tt) : i \in Ids, tt \in TitleTypes}
NoPath == <<0, <<>>, "-">>

\* Files on disk.
Absent == [k |-> "absent", pw |-> 0]
Plain == [k |-> "plain", pw |-> 0]
Corrupt == [k |-> "corrupt", pw |-> 0]
Enc(i) == [k |-> "enc", pw |-> i]

\* Python's None as a task value
None == <<>>

\* TaskResult.__init__; nset and nerr count the completed set / set_error
\* calls, ranby is the worker that took the task, byw the one that completed
\* the result and bykey the key that worker serves.
NewResult == [event |-> FALSE, value |-> None, error |-> "None",
              nset |-> 0, nerr |-> 0, ranby |-> NoQ, byw |-> NoQ, bykey |-> Key(0)]

\* A request thread entering get_album_pdf_path(jm_album_id, pdf_dir, opt,
\* enable_pwd, title_type): use_cache = False, nothing submitted yet.
\* ret is how the call ended; hit records that the probe of validate_or_build
\* found an existing file that satisfies the request.  The remaining fields
\* record the course of validate_or_build: probe is what the first existence
\* check and the probe found ("absent", "valid", "invalid"), rm how os.remove
\* ended ("ok", "failed"), built that merge_webp_to_pdf was invoked, fin the
\* destination as validate_or_build left it when it ended ("valid", "invalid",
\* or, when it raised, "raised_absent" / "raised_present"); http is the status
\* of the response of the route that made the call (0: none yet); rd is what
\* the route's read of the returned path found ("none": not read yet,
\* "failed": the open raised, otherwise "valid" / "invalid"); found is what
\* the probe of validate_or_build went through (ProbeOutcome).
Request(i, p, t) == [pc |-> "subA", id |-> i, pwd |-> p, tt |-> t, title |-> <<>>,
                     path |-> NoPath, use_cache |-> FALSE, ret |-> "none", hit |-> FALSE,
                     probe |-> "none", rm |-> "none", built |-> FALSE, fin |-> "none",
                     http |-> 0, rd |-> "none", found |-> "none"]
Requests == {Request(i, p, t) : i \in Ids, p \in BOOLEAN, t \in TitleTypes}
\* A worker thread that is not running; fresh marks a started thread that has
\* not yet entered its loop.
DeadWorker == [pc |-> "dead", key |-> Key(0), q |-> NoQ, task |-> NoTask,
               val |-> None, err |-> "None", fresh |-> FALSE]

VARIABLES
    lock,      \* KeyedTaskQueue.global_lock: 0 (free) or the caller holding it
    queues,    \* KeyedTaskQueue.queues: key -> queue object (NoQ: no entry)
    qitems,    \* contents of each Queue object
    active,    \* KeyedTaskQueue.active
    wk,        \* worker threads: position and locals of _worker
    res,       \* the TaskResult of each task
    st,        \* each task: "new", "queued", "running", "raised" (the task
               \* raised, its outcome is not delivered yet), "done" (completed
               \* after a normal return), "failed" (completed after a raise)
    enq,       \* per key, the tasks in the order their q.put took effect
    cl,        \* request threads: position and locals of get_album_pdf_path
    fs,        \* the pdf directory: path -> file
    folder,    \* materials folder "[id]title" present under base_dir
    nbuild,    \* per identifier, merge_webp_to_pdf invocations so far
    ndl        \* per identifier, download_album invocations so far

vars == <<lock, queues, qitems, active, wk, res, st, enq, cl, fs, folder, nbuild, ndl>>

execVars == <<lock, queues, qitems, active>>
diskVars == <<fs, folder, nbuild, ndl>>

\* ------------------------------------------------------------ helpers
Min(S) == CHOOSE x \in S : \A y \in S : x <= y

LiveWorkers == {w \in WorkerIds : wk[w].pc # "dead"}
UsedQ == {queues[k] : k \in Keys} \cup {wk[w].q : w \in LiveWorkers}
\* Queue(): a queue object distinct from every one still referenced
FreshQ(k) == <<k[2], Min({n \in Slots : <<k[2], n>> \notin UsedQ})>>
\* threading.Thread(...): a thread not yet running
FreshW(k) == <<k[2], Min({n \in Slots : <<k[2], n>> \notin LiveWorkers})>>

StepOf(c) == IF cl[c].pc \in {"subA", "actA", "waitA"} THEN "A" ELSE "B"
TaskOf(c) == <<c, StepOf(c)>>
\* Variants of CallKey: the key is taken from the requesting thread instead
\* of the identifier; every request uses one and the same key.
CallKeyPerThread(c) == Key(c)
CallKeyShared(c) == Key(1)

\* key = f"album_{jm_album_id}" of the call of request thread c
CallKey(c) == Key(cl[c].id)
KeyOf(t) == CallKey(t[1])

\* q.empty()
QEmpty(q) == qitems[q] = <<>>

\* worker w is inside a task (between q.get and the end of set / set_error)
Running(w) == wk[w].pc \notin {"dead", "lookup", "get", "cleanup"}
\* the identifier of the call whose task worker w is running
IdOf(w) == cl[wk[w].task[1]].id
\* merge_webp_to_pdf is in progress in worker w
Building(w) == wk[w].pc \in {"merge_save", "merge_write"}
Started(t) == st[t] \in {"running", "raised", "done", "failed"}
Completed(t) == st[t] \in {"done", "failed"}
InQueue(t, q) == \E n \in 1..Len(qitems[q]) : qitems[q][n] = t

\* the keys that have a worker
ActiveKeys == {k \in Keys : active[k]}

\* ------------------------------------------------------------ initial state
\* Nothing submitted, no worker, an empty pdf directory and no materials.
InitExecutor ==
    /\ lock = 0
    /\ queues = [k \in Keys |-> NoQ]
    /\ qitems = [q \in QIds |-> <<>>]
    /\ active = [k \in Keys |-> FALSE]
    /\ wk = [w \in WorkerIds |-> DeadWorker]
    /\ res = [t \in TaskIds |-> NewResult]
    /\ st = [t \in TaskIds |-> "new"]
    /\ enq = [k \in Keys |-> <<>>]
    /\ fs = [p \in Paths |-> Absent]
    /\ folder = [i \in Ids |-> FALSE]
    /\ nbuild = [i \in Ids |-> 0]
    /\ ndl = [i \in Ids |-> 0]

\* The two request threads are interchangeable: one order of identifiers.
Init ==
    /\ InitExecutor
    /\ cl \in {f \in [Callers -> Requests] : f[1].id <= f[2].id}

\* Requests with the default arguments enable_pwd=True, title_type=2.
InitDefaultArgs ==
    /\ InitExecutor
    /\ cl \in {f \in [Callers -> Requests] :
                  f[1].id <= f[2].id /\ \A c \in Callers : f[c].pwd /\ f[c].tt = 2}

\* ------------------------------------------------------------ request threads
\* submit, first half: result = TaskResult(); with global_lock:
\*   q = queues.setdefault(key, Queue()); q.put((func, result))
SubmitEnqueue(c) ==
    /\ cl[c].pc \in {"subA", "subB"}
    /\ lock = 0
    /\ LET t == TaskOf(c)
           k == CallKey(c)
           q == IF queues[k] = NoQ THEN FreshQ(k) ELSE queues[k]
       IN /\ lock' = c
          /\ queues' = [queues EXCEPT ![k] = q]
          /\ qitems' = [qitems EXCEPT ![q] = Append(@, t)]
          /\ res' = [res EXCEPT ![t] = NewResult]
          /\ st' = [st EXCEPT ![t] = "queued"]
          /\ enq' = [enq EXCEPT ![k] = Append(@, t)]
    /\ cl' = [cl EXCEPT ![c].pc = IF @ = "subA" THEN "actA" ELSE "actB"]
    /\ UNCHANGED <<active, wk, diskVars>>

\* Variant of SubmitActivate: a worker is started on every submit, whether or
\* not one is active for the key.
SubmitActivateAlways(c) ==
    /\ cl[c].pc \in {"actA", "actB"}
    /\ lock = c
    /\ active' = [active EXCEPT ![CallKey(c)] = TRUE]
    /\ wk' = [wk EXCEPT ![FreshW(CallKey(c))] =
                  [DeadWorker EXCEPT !.pc = "lookup", !.key = CallKey(c)]]
    /\ lock' = 0
    /\ cl' = [cl EXCEPT ![c].pc = IF @ = "actA" THEN "waitA" ELSE "waitB"]
    /\ UNCHANGED <<queues, qitems, res, st, enq, diskVars>>

\* Variant of SubmitActivate: no worker is started while worker_count keys
\* are active.
SubmitActivateCapped(c) ==
    /\ cl[c].pc \in {"actA", "actB"}
    /\ lock = c
    /\ LET k == CallKey(c)
       IN IF ~active[k] /\ Cardinality(ActiveKeys) < worker_count
          THEN /\ active' = [active EXCEPT ![k] = TRUE]
               /\ wk' = [wk EXCEPT ![FreshW(k)] =
                             [DeadWorker EXCEPT !.pc = "lookup", !.key = k, !.fresh = TRUE]]
          ELSE UNCHANGED <<active, wk>>
    /\ lock' = 0
    /\ cl' = [cl EXCEPT ![c].pc = IF @ = "actA" THEN "waitA" ELSE "waitB"]
    /\ UNCHANGED <<queues, qitems, res, st, enq, diskVars>>

\* submit, second half (still holding global_lock):
\*   if not active.get(key): active[key] = True; Thread(_worker, key).start()
\* then the lock is released and result returned.
SubmitActivate(c) ==
    /\ cl[c].pc \in {"actA", "actB"}
    /\ lock = c
    /\ LET k == CallKey(c)
       IN IF ~active[k]
          THEN /\ active' = [active EXCEPT ![k] = TRUE]
               /\ wk' = [wk EXCEPT ![FreshW(k)] =
                             [DeadWorker EXCEPT !.pc = "lookup", !.key = k, !.fresh = TRUE]]
          ELSE UNCHANGED <<active, wk>>
    /\ lock' = 0
    /\ cl' = [cl EXCEPT ![c].pc = IF @ = "actA" THEN "waitA" ELSE "waitB"]
    /\ UNCHANGED <<queues, qitems, res, st, enq, diskVars>>

\* Variant of Get: an error of ensure_title is dropped and the call goes on to
\* submit validate_or_build.
GetSwallowsError(c) ==
    /\ cl[c].pc \in {"waitA", "waitB"}
    /\ LET r == res[TaskOf(c)]
       IN /\ r.event
          /\ IF cl[c].pc = "waitA"
             THEN cl' = [cl EXCEPT ![c].pc = "subB", ![c].title = r.value,
                                   ![c].path = PdfFilename(cl[c].id, r.value, cl[c].tt)]
             ELSE IF r.error # "None"
             THEN cl' = [cl EXCEPT ![c].pc = "raised", ![c].ret = r.error]
             ELSE cl' = [cl EXCEPT ![c].pc = "returned", ![c].ret = "ok"]
    /\ UNCHANGED <<execVars, wk, res, st, enq, diskVars>>

\* get_pdf / get_pdf_path around get_album_pdf_path: the call is not wrapped
\* in try/except and the application registers no error handler, so whatever
\* the call raises ends the request with the framework's response for an
\* unhandled exception; a returned path is never None and is answered normally.
RouteStatus(ret) == IF ret = "ok" THEN 200 ELSE 500

\* title = queue_manager.submit(key, ensure_title).get() and
\* queue_manager.submit(key, validate_or_build).get(), the get():
\*   self.event.wait(); if self.error: raise self.error; return self.value
\* and what get_album_pdf_path does with the outcome: after step A the file
\* name and path are derived from the title; after step B it returns
\* (pdf_path, pdf_filename).  A raised error leaves get_album_pdf_path and the
\* route; a return is followed by the route's response.
Get(c) ==
    /\ cl[c].pc \in {"waitA", "waitB"}
    /\ LET r == res[TaskOf(c)]
       IN /\ r.event
          /\ IF r.error # "None"
             THEN cl' = [cl EXCEPT ![c].pc = "raised", ![c].ret = r.error,
                                   ![c].http = RouteStatus(r.error)]
             ELSE IF cl[c].pc = "waitA"
             THEN cl' = [cl EXCEPT ![c].pc = "subB", ![c].title = r.value,
                                   ![c].path = PdfFilename(cl[c].id, r.value, cl[c].tt)]
             ELSE cl' = [cl EXCEPT ![c].pc = "returned", ![c].ret = "ok",
                                   ![c].http = RouteStatus("ok")]
    /\ UNCHANGED <<execVars, wk, res, st, enq, diskVars>>

\* ------------------------------------------------------------ worker threads
\* Variant of WorkerLookup: the worker keeps global_lock (holder 3) after the
\* lookup, through q.get and the task.
WorkerLookupKeepsLock(w) ==
    /\ wk[w].pc = "lookup"
    /\ lock = 0
    /\ wk' = [wk EXCEPT ![w].pc = "get", ![w].q = queues[wk[w].key]]
    /\ lock' = 3
    /\ UNCHANGED <<queues, qitems, active, res, st, enq, cl, diskVars>>

\* _worker: with global_lock: q = queues.get(key);
\*          if q is None: active[key] = False; return
WorkerLookup(w) ==
    /\ wk[w].pc = "lookup"
    /\ lock = 0
    /\ LET k == wk[w].key
       IN IF queues[k] = NoQ
          THEN /\ active' = [active EXCEPT ![k] = FALSE]
               /\ wk' = [wk EXCEPT ![w] = DeadWorker]
          ELSE /\ wk' = [wk EXCEPT ![w].pc = "get", ![w].q = queues[k], ![w].fresh = FALSE]
               /\ UNCHANGED active
    /\ UNCHANGED <<lock, queues, qitems, res, st, enq, cl, diskVars>>

\* Variant of WorkerGet: the newest item is taken instead of the oldest.
WorkerGetLast(w) ==
    /\ wk[w].pc = "get"
    /\ LET q == wk[w].q
       IN IF qitems[q] = <<>>
          THEN /\ wk' = [wk EXCEPT ![w].pc = "cleanup"]
               /\ UNCHANGED <<qitems, st, res>>
          ELSE LET n == Len(qitems[q])
                   t == qitems[q][n]
               IN /\ qitems' = [qitems EXCEPT ![q] = SubSeq(@, 1, n - 1)]
                  /\ st' = [st EXCEPT ![t] = "running"]
                  /\ res' = [res EXCEPT ![t].ranby = w]
                  /\ wk' = [wk EXCEPT ![w].task = t,
                                      ![w].pc = IF t[2] = "A" THEN "title_probe" ELSE "v_probe"]
    /\ UNCHANGED <<lock, queues, active, enq, cl, diskVars>>

\* Variant of WorkerGet: the item is read but left in the queue.
WorkerGetPeek(w) ==
    /\ wk[w].pc = "get"
    /\ LET q == wk[w].q
       IN IF qitems[q] = <<>>
          THEN /\ wk' = [wk EXCEPT ![w].pc = "cleanup"]
               /\ UNCHANGED <<st, res>>
          ELSE LET t == Head(qitems[q])
               IN /\ st' = [st EXCEPT ![t] = "running"]
                  /\ res' = [res EXCEPT ![t].ranby = w]
                  /\ wk' = [wk EXCEPT ![w].task = t,
                                      ![w].pc = IF t[2] = "A" THEN "title_probe" ELSE "v_probe"]
    /\ UNCHANGED <<lock, queues, qitems, active, enq, cl, diskVars>>

\* task, result = q.get(timeout=0.1): an item is taken if there is one;
\* queue.Empty is raised only when the queue is empty as the timeout expires.
WorkerGet(w) ==
    /\ wk[w].pc = "get"
    /\ LET q == wk[w].q
       IN IF QEmpty(q)
          THEN /\ wk' = [wk EXCEPT ![w].pc = "cleanup"]
               /\ UNCHANGED <<qitems, st, res>>
          ELSE LET t == Head(qitems[q])
               IN /\ qitems' = [qitems EXCEPT ![q] = Tail(@)]
                  /\ st' = [st EXCEPT ![t] = "running"]
                  /\ res' = [res EXCEPT ![t].ranby = w]
                  /\ wk' = [wk EXCEPT ![w].task = t,
                                      ![w].pc = IF t[2] = "A" THEN "title_probe" ELSE "v_probe"]
    /\ UNCHANGED <<lock, queues, active, enq, cl, diskVars>>

\* Variant of WorkerCleanup: the worker retires on the timeout alone, without
\* re-checking q.empty() under the lock.
WorkerCleanupNoCheck(w) ==
    /\ wk[w].pc = "cleanup"
    /\ lock = 0
    /\ queues' = [queues EXCEPT ![wk[w].key] = NoQ]
    /\ active' = [active EXCEPT ![wk[w].key] = FALSE]
    /\ wk' = [wk EXCEPT ![w] = DeadWorker]
    /\ UNCHANGED <<lock, qitems, res, st, enq, cl, diskVars>>

\* Variant of WorkerCleanup: the retiring worker leaves active[key] set.
WorkerCleanupKeepsActive(w) ==
    /\ wk[w].pc = "cleanup"
    /\ lock = 0
    /\ IF QEmpty(wk[w].q)
       THEN /\ queues' = [queues EXCEPT ![wk[w].key] = NoQ]
            /\ wk' = [wk EXCEPT ![w] = DeadWorker]
       ELSE /\ wk' = [wk EXCEPT ![w].pc = "lookup", ![w].q = NoQ]
            /\ UNCHANGED queues
    /\ UNCHANGED <<lock, active, qitems, res, st, enq, cl, diskVars>>

\* Variant of WorkerCleanup: the retiring worker leaves the key's queue
\* registered.
WorkerCleanupKeepsQueue(w) ==
    /\ wk[w].pc = "cleanup"
    /\ lock = 0
    /\ IF QEmpty(wk[w].q)
       THEN /\ active' = [active EXCEPT ![wk[w].key] = FALSE]
            /\ wk' = [wk EXCEPT ![w] = DeadWorker]
       ELSE /\ wk' = [wk EXCEPT ![w].pc = "lookup", ![w].q = NoQ]
            /\ UNCHANGED active
    /\ UNCHANGED <<lock, queues, qitems, res, st, enq, cl, diskVars>>

\* except Exception: with global_lock:
\*   if q.empty(): queues.pop(key, None); active[key] = False; return
\* continue
WorkerCleanup(w) ==
    /\ wk[w].pc = "cleanup"
    /\ lock = 0
    /\ LET k == wk[w].key
       IN IF QEmpty(wk[w].q)
          THEN /\ queues' = [queues EXCEPT ![k] = NoQ]
               /\ active' = [active EXCEPT ![k] = FALSE]
               /\ wk' = [wk EXCEPT ![w] = DeadWorker]
          ELSE /\ wk' = [wk EXCEPT ![w].pc = "lookup", ![w].q = NoQ]
               /\ UNCHANGED <<queues, active>>
    /\ UNCHANGED <<lock, qitems, res, st, enq, cl, diskVars>>

\* Variant of ResultStore: the event is set before the outcome is stored.
ResultStoreEventFirst(w) ==
    /\ wk[w].pc = "set"
    /\ res' = [res EXCEPT ![wk[w].task].event = TRUE]
    /\ wk' = [wk EXCEPT ![w].pc = "set_event"]
    /\ UNCHANGED <<execVars, st, enq, cl, diskVars>>

\* result.set(val) / result.set_error(e), first line:
\*   self.value = value   /   self.error = err
ResultStore(w) ==
    /\ wk[w].pc = "set"
    /\ LET t == wk[w].task
       IN IF wk[w].err = "None"
          THEN res' = [res EXCEPT ![t].value = wk[w].val]
          ELSE res' = [res EXCEPT ![t].error = wk[w].err]
    /\ wk' = [wk EXCEPT ![w].pc = "set_event"]
    /\ UNCHANGED <<execVars, st, enq, cl, diskVars>>

\* Variant of ResultEvent: an error raised by the task ends the worker thread.
ResultEventDiesOnError(w) ==
    /\ wk[w].pc = "set_event"
    /\ LET t == wk[w].task
       IN /\ res' = [res EXCEPT ![t].event = TRUE,
                                ![t].nset = @ + (IF wk[w].err = "None" THEN 1 ELSE 0),
                                ![t].nerr = @ + (IF wk[w].err = "None" THEN 0 ELSE 1),
                                ![t].byw = w,
                                ![t].bykey = wk[w].key]
          /\ st' = [st EXCEPT ![t] = IF @ = "raised" THEN "failed" ELSE "done"]
    /\ wk' = [wk EXCEPT ![w] = IF wk[w].err = "None"
                               THEN [DeadWorker EXCEPT !.pc = "lookup", !.key = wk[w].key]
                               ELSE DeadWorker]
    /\ UNCHANGED <<execVars, enq, cl, diskVars>>

\* result.set / set_error, second line: self.event.set(); then, in the
\* worker's finally clause, q.task_done(), and the loop starts over.
ResultEvent(w) ==
    /\ wk[w].pc = "set_event"
    /\ LET t == wk[w].task
       IN /\ res' = [res EXCEPT ![t].event = TRUE,
                                ![t].nset = @ + (IF wk[w].err = "None" THEN 1 ELSE 0),
                                ![t].nerr = @ + (IF wk[w].err = "None" THEN 0 ELSE 1),
                                ![t].byw = w,
                                ![t].bykey = wk[w].key]
          /\ st' = [st EXCEPT ![t] = IF @ = "raised" THEN "failed" ELSE "done"]
    /\ wk' = [wk EXCEPT ![w] = [DeadWorker EXCEPT !.pc = "lookup", !.key = wk[w].key]]
    /\ UNCHANGED <<execVars, enq, cl, diskVars>>

\* ------------------------------------------------------------ ensure_title
\* Variant of is_jm_book_exist: the folder of the identifier is never matched.
is_jm_book_existNoMatch(i) == None

\* is_jm_book_exist(base_dir, jm_album_id): the title of the materials
\* folder of the identifier, or None
is_jm_book_exist(i) == IF folder[i] THEN AlbumName(i) ELSE None

\* Variant of TitleProbe: download_album is called whatever the probe finds.
TitleProbeAlwaysDownloads(w) ==
    /\ wk[w].pc = "title_probe"
    /\ wk' = [wk EXCEPT ![w].pc = "download"]
    /\ ndl' = [ndl EXCEPT ![cl[wk[w].task[1]].id] = @ + 1]
    /\ UNCHANGED <<execVars, res, st, enq, cl, fs, folder, nbuild>>

\* t = is_jm_book_exist(...); if t is None: download_album(...) is entered;
\* otherwise return t
TitleProbe(w) ==
    /\ wk[w].pc = "title_probe"
    /\ LET i == cl[wk[w].task[1]].id
           t == is_jm_book_exist(i)
       IN IF t = None
          THEN /\ wk' = [wk EXCEPT ![w].pc = "download"]
               /\ ndl' = [ndl EXCEPT ![i] = @ + 1]
          ELSE /\ wk' = [wk EXCEPT ![w].pc = "set", ![w].val = t]
               /\ UNCHANGED ndl
    /\ UNCHANGED <<execVars, res, st, enq, cl, fs, folder, nbuild>>

\* album, _ = download_album(jm_album_id, option=opt) ends: the materials
\* are on disk and album.name is returned, or the provider raised.
Download(w) ==
    /\ wk[w].pc = "download"
    /\ LET i == cl[wk[w].task[1]].id
       IN \/ /\ folder' = [folder EXCEPT ![i] = TRUE]
             /\ wk' = [wk EXCEPT ![w].pc = "set", ![w].val = AlbumName(i)]
             /\ UNCHANGED st
          \/ /\ wk' = [wk EXCEPT ![w].pc = "set", ![w].err = "ProviderError"]
             /\ st' = [st EXCEPT ![wk[w].task] = "raised"]
             /\ UNCHANGED folder
    /\ UNCHANGED <<execVars, res, enq, cl, fs, nbuild, ndl>>

\* ------------------------------------------------------------ validate_or_build
\* Variant of Valid: an encrypted file is never accepted.
ValidPlainOnly(f, pwd, i) == ~pwd /\ f.k = "plain"

\* Variant of Valid: any readable file is accepted, encrypted or not.
ValidIgnoresEncryption(f, pwd, i) == f.k \in {"plain", "enc"}

\* The probe of an existing file: PdfReader(pdf_path), is_encrypted,
\* decrypt(jm_album_id); any exception leaves use_cache False.
Valid(f, pwd, i) ==
    IF f.k = "corrupt" THEN FALSE
    ELSE IF pwd THEN f.k = "enc" /\ f.pw = i
    ELSE f.k = "plain"

\* How the probe of an existing file goes: PdfReader raises ("reader_error"),
\* the file is not encrypted ("plain"), decrypt(jm_album_id) succeeds
\* ("decrypted") or returns false / raises ("decrypt_failed").
ProbeOutcome(f, i) ==
    IF f.k = "corrupt" THEN "reader_error"
    ELSE IF f.k = "plain" THEN "plain"
    ELSE IF f.pw = i THEN "decrypted"
    ELSE "decrypt_failed"

\* The destination as a finished validate_or_build leaves it to its caller.
FileState(f, pwd, i) == IF Valid(f, pwd, i) THEN "valid" ELSE "invalid"
\* The destination as a validate_or_build that raised leaves it.
RaisedState(f) == IF f.k = "absent" THEN "raised_absent" ELSE "raised_present"

\* Variant of VProbe: a valid file is removed and rebuilt like an invalid one.
VProbeAlwaysRebuild(w) ==
    /\ wk[w].pc = "v_probe"
    /\ LET c == wk[w].task[1]
           f == fs[cl[c].path]
       IN IF f.k = "absent"
          THEN /\ wk' = [wk EXCEPT ![w].pc = "v_recheck"]
               /\ UNCHANGED cl
          ELSE /\ wk' = [wk EXCEPT ![w].pc = "v_remove"]
               /\ cl' = [cl EXCEPT ![c].hit = Valid(f, cl[c].pwd, cl[c].id)]
    /\ UNCHANGED <<execVars, res, st, enq, diskVars>>

\* Variant of VProbe: an exception of PdfReader or decrypt leaves
\* validate_or_build instead of being caught.
VProbeRaisesProbeError(w) ==
    /\ wk[w].pc = "v_probe"
    /\ LET c == wk[w].task[1]
           f == fs[cl[c].path]
       IN IF f.k = "absent"
          THEN /\ wk' = [wk EXCEPT ![w].pc = "v_recheck"]
               /\ cl' = [cl EXCEPT ![c].probe = "absent"]
               /\ UNCHANGED st
          ELSE IF Valid(f, cl[c].pwd, cl[c].id)
          THEN /\ cl' = [cl EXCEPT ![c].use_cache = TRUE, ![c].hit = TRUE,
                                   ![c].probe = "valid", ![c].fin = "valid",
                                   ![c].found = ProbeOutcome(f, cl[c].id)]
               /\ wk' = [wk EXCEPT ![w].pc = "set", ![w].val = None]
               /\ UNCHANGED st
          ELSE IF ProbeOutcome(f, cl[c].id) \in {"reader_error", "decrypt_failed"}
          THEN /\ wk' = [wk EXCEPT ![w].pc = "set", ![w].err = "ProbeError"]
               /\ st' = [st EXCEPT ![wk[w].task] = "raised"]
               /\ cl' = [cl EXCEPT ![c].probe = "invalid",
                                   ![c].found = ProbeOutcome(f, cl[c].id),
                                   ![c].fin = RaisedState(f)]
          ELSE /\ wk' = [wk EXCEPT ![w].pc = "v_remove"]
               /\ cl' = [cl EXCEPT ![c].probe = "invalid",
                                   ![c].found = ProbeOutcome(f, cl[c].id)]
               /\ UNCHANGED st
    /\ UNCHANGED <<execVars, res, enq, diskVars>>

\* if pdf_path_obj.exists(): <probe>; a valid file ends the task (both
\* "if not use_cache" are skipped), an invalid one goes on to os.remove,
\* an absent one to the second existence check.
VProbe(w) ==
    /\ wk[w].pc = "v_probe"
    /\ LET c == wk[w].task[1]
           f == fs[cl[c].path]
       IN IF f.k = "absent"
          THEN /\ wk' = [wk EXCEPT ![w].pc = "v_recheck"]
               /\ cl' = [cl EXCEPT ![c].probe = "absent"]
          ELSE IF Valid(f, cl[c].pwd, cl[c].id)
          THEN /\ cl' = [cl EXCEPT ![c].use_cache = TRUE, ![c].hit = TRUE,
                                   ![c].probe = "valid", ![c].fin = "valid",
                                   ![c].found = ProbeOutcome(f, cl[c].id)]
               /\ wk' = [wk EXCEPT ![w].pc = "set", ![w].val = None]
          ELSE /\ wk' = [wk EXCEPT ![w].pc = "v_remove"]
               /\ cl' = [cl EXCEPT ![c].probe = "invalid",
                                   ![c].found = ProbeOutcome(f, cl[c].id)]
    /\ UNCHANGED <<execVars, res, st, enq, diskVars>>

\* try: os.remove(pdf_path) except OSError: print(...)
VRemove(w) ==
    /\ wk[w].pc = "v_remove"
    /\ LET c == wk[w].task[1]
           p == cl[c].path
       IN \/ /\ fs[p].k # "absent"
             /\ fs' = [fs EXCEPT ![p] = Absent]
             /\ cl' = [cl EXCEPT ![c].rm = "ok"]
          \/ /\ UNCHANGED fs
             /\ cl' = [cl EXCEPT ![c].rm = "failed"]
    /\ wk' = [wk EXCEPT ![w].pc = "v_recheck"]
    /\ UNCHANGED <<execVars, res, st, enq, folder, nbuild, ndl>>

\* if not use_cache: if pdf_path_obj.exists(): use_cache = True; return
\* otherwise merge_webp_to_pdf(webp_folder, pdf_path, password) is entered.
VRecheck(w) ==
    /\ wk[w].pc = "v_recheck"
    /\ LET c == wk[w].task[1]
       IN IF fs[cl[c].path].k # "absent"
          THEN /\ cl' = [cl EXCEPT ![c].use_cache = TRUE,
                                   ![c].fin = FileState(fs[cl[c].path], cl[c].pwd, cl[c].id)]
               /\ wk' = [wk EXCEPT ![w].pc = "set", ![w].val = None]
               /\ UNCHANGED nbuild
          ELSE /\ wk' = [wk EXCEPT ![w].pc = "merge_save"]
               /\ nbuild' = [nbuild EXCEPT ![cl[c].id] = @ + 1]
               /\ cl' = [cl EXCEPT ![c].built = TRUE]
    /\ UNCHANGED <<execVars, res, st, enq, fs, folder, ndl>>

\* merge_webp_to_pdf, up to images[0].save(pdf_path, ...): no .webp file
\* raises FileNotFoundError; the save writes an unencrypted PDF, or fails.
MergeSave(w) ==
    /\ wk[w].pc = "merge_save"
    /\ LET c == wk[w].task[1]
       IN IF ~folder[cl[c].id]
          THEN /\ wk' = [wk EXCEPT ![w].pc = "set", ![w].err = "FileNotFoundError"]
               /\ st' = [st EXCEPT ![wk[w].task] = "raised"]
               /\ cl' = [cl EXCEPT ![c].fin = RaisedState(fs[cl[c].path])]
               /\ UNCHANGED fs
          ELSE \/ /\ fs' = [fs EXCEPT ![cl[c].path] = Plain]
                  /\ wk' = [wk EXCEPT ![w].pc = "merge_write"]
                  /\ UNCHANGED <<st, cl>>
               \/ /\ wk' = [wk EXCEPT ![w].pc = "set", ![w].err = "BuildError"]
                  /\ st' = [st EXCEPT ![wk[w].task] = "raised"]
                  /\ cl' = [cl EXCEPT ![c].fin = RaisedState(fs[cl[c].path])]
                  /\ UNCHANGED fs
    /\ UNCHANGED <<execVars, res, enq, folder, nbuild, ndl>>

\* Variant of MergeWrite: the password is ignored, the file is never encrypted.
MergeWriteNoPassword(w) ==
    /\ wk[w].pc = "merge_write"
    /\ LET c == wk[w].task[1]
           p == cl[c].path
       IN /\ fs' = [fs EXCEPT ![p] = Plain]
          /\ wk' = [wk EXCEPT ![w].pc = "set", ![w].val = None]
          /\ cl' = [cl EXCEPT ![c].fin = FileState(fs'[p], cl[c].pwd, cl[c].id)]
          /\ UNCHANGED st
    /\ UNCHANGED <<execVars, res, enq, folder, nbuild, ndl>>

\* merge_webp_to_pdf, the rewrite: PdfReader(pdf_path), PdfWriter,
\* encrypt(password) if password, open(pdf_path, "wb"), write.  It may fail
\* before the file is reopened (the unencrypted PDF stays) or while writing
\* (a truncated file stays).
MergeWrite(w) ==
    /\ wk[w].pc = "merge_write"
    /\ LET c == wk[w].task[1]
           p == cl[c].path
       IN \/ /\ fs' = [fs EXCEPT ![p] = IF cl[c].pwd THEN Enc(cl[c].id) ELSE Plain]
             /\ wk' = [wk EXCEPT ![w].pc = "set", ![w].val = None]
             /\ cl' = [cl EXCEPT ![c].fin = FileState(fs'[p], cl[c].pwd, cl[c].id)]
             /\ UNCHANGED st
          \/ /\ wk' = [wk EXCEPT ![w].pc = "set", ![w].err = "BuildError"]
             /\ st' = [st EXCEPT ![wk[w].task] = "raised"]
             /\ cl' = [cl EXCEPT ![c].fin = RaisedState(fs[p])]
             /\ UNCHANGED fs
          \/ /\ fs' = [fs EXCEPT ![p] = Corrupt]
             /\ wk' = [wk EXCEPT ![w].pc = "set", ![w].err = "BuildError"]
             /\ st' = [st EXCEPT ![wk[w].task] = "raised"]
             /\ cl' = [cl EXCEPT ![c].fin = RaisedState(fs'[p])]
    /\ UNCHANGED <<execVars, res, enq, folder, nbuild, ndl>>

\* ------------------------------------------------------------ the route
\* get_pdf after get_album_pdf_path returned: send_file(path) or
\* open(path, "rb") and f.read(), in the request thread; an exception there is
\* answered with status 500.
RouteRead(c) ==
    /\ cl[c].pc = "returned"
    /\ cl[c].rd = "none"
    /\ LET f == fs[cl[c].path]
       IN IF f.k = "absent"
          THEN cl' = [cl EXCEPT ![c].rd = "failed", ![c].http = 500]
          ELSE cl' = [cl EXCEPT ![c].rd = FileState(f, cl[c].pwd, cl[c].id), ![c].http = 200]
    /\ UNCHANGED <<execVars, wk, res, st, enq, diskVars>>

\* ------------------------------------------------------------ specification
\* One step of request thread c.
CallerStep(c) ==
    \/ SubmitEnqueue(c)
    \/ SubmitActivate(c)
    \/ Get(c)
    \/ RouteRead(c)

\* One step of worker thread w: the _worker loop and the task it runs.
WorkerStep(w) ==
    \/ WorkerLookup(w)
    \/ WorkerGet(w)
    \/ WorkerCleanup(w)
    \/ TitleProbe(w)
    \/ Download(w)
    \/ VProbe(w)
    \/ VRemove(w)
    \/ VRecheck(w)
    \/ MergeSave(w)
    \/ MergeWrite(w)
    \/ ResultStore(w)
    \/ ResultEvent(w)

Next == (\E c \in Callers : CallerStep(c)) \/ (\E w \in WorkerIds : WorkerStep(w))

Spec == Init /\ [][Next]_vars

\* Fair scheduling of every thread.  A step that needs the lock is enabled
\* again whenever the lock is released, and the lock is only held between
\* the two halves of a submit.
Fairness ==
    /\ \A c \in Callers : WF_vars(CallerStep(c))
    /\ \A w \in WorkerIds : WF_vars(WorkerStep(w))

FairSpec == InitDefaultArgs /\ [][Next]_vars /\ Fairness

\* Fair scheduling, except that a task of a call with identifier 1 may stop
\* anywhere and never finish.
SlowTaskFairness ==
    /\ \A c \in Callers : WF_vars(CallerStep(c))
    /\ \A w \in WorkerIds : WF_vars(~(Running(w) /\ IdOf(w) = 1) /\ WorkerStep(w))

SlowTaskSpec == InitDefaultArgs /\ [][Next]_vars /\ SlowTaskFairness

\* ------------------------------------------------------------ file names
\* The derivation of pdf_filename and pdf_path alone: one call that has got a
\* title and derives the names, for every identifier, every title up to
\* MaxTitleLen over TitleChars, title_type values inside and outside 0..2 and
\* relative and absolute pdf_dir.
TitleChars == UnsafeChars \cup {"a", " ", ".", "[", "]"}
Titles == UNION {[1..n -> TitleChars] : n \in 0..MaxTitleLen}
AnyTitleTypes == {-1, 0, 1, 2, 3}
PdfDirs == {<<"pdf">>, <<"..", "pdf">>, <<"/", "data", "pdf">>}
NameCall(i, title, tt, dir) ==
    [pc |-> "title", id |-> i, title |-> title, tt |-> tt, pdf_dir |-> dir,
     pdf_filename |-> <<>>, pdf_path |-> <<>>]

NameInit ==
    /\ InitExecutor
    /\ cl \in {[c \in {1} |-> NameCall(i, title, tt, dir)] :
                  i \in Ids, title \in Titles, tt \in AnyTitleTypes, dir \in PdfDirs}

\* safe_title = sanitize(title); pdf_filename by title_type;
\* pdf_path = str(Path(pdf_dir).resolve() / pdf_filename)
DeriveName(c) ==
    /\ cl[c].pc = "title"
    /\ LET fname == pdf_filename(cl[c].id, cl[c].title, cl[c].tt)
       IN cl' = [cl EXCEPT ![c].pc = "named",
                           ![c].pdf_filename = fname,
                           ![c].pdf_path = pdf_path(cl[c].pdf_dir, fname)]
    /\ UNCHANGED <<execVars, wk, res, st, enq, diskVars>>

NameNext == \E c \in DOMAIN cl : DeriveName(c)

NameSpec == NameInit /\ [][NameNext]_vars

\* ------------------------------------------------------------ properties

\* C1: no two merge_webp_to_pdf invocations for the key of one identifier are
\* in progress at the same time, whatever enable_pwd and title_type the
\* concurrent calls pass.
C1_OneBuilderPerKey ==
    LET builders == {w \in WorkerIds : Building(w)}
    IN \A w1, w2 \in builders : w1 # w2 => Key(IdOf(w1)) # Key(IdOf(w2))

\* A builder runs for one call while the other call, with the same identifier
\* and different enable_pwd and title_type, has its task waiting in the queue.
C1_Witness ==
    \E w \in WorkerIds : \E c \in Callers :
        /\ Building(w)
        /\ c # wk[w].task[1]
        /\ cl[c].id = IdOf(w)
        /\ cl[c].pwd # cl[wk[w].task[1]].pwd
        /\ cl[c].tt # cl[wk[w].task[1]].tt
        /\ st[<<c, "B">>] = "queued"

\* C2: whenever the executor lock is free, every task that is pending sits in
\* the queue registered for its key, the key is marked active, and a live
\* worker of that key is going to read that queue (it holds it, or is about
\* to look it up): no task is stranded by a retiring worker.
C2_NoStrandedTask ==
    lock = 0 =>
        \A t \in TaskIds :
            st[t] = "queued" =>
                /\ queues[KeyOf(t)] # NoQ
                /\ InQueue(t, queues[KeyOf(t)])
                /\ active[KeyOf(t)]
                /\ \E w \in LiveWorkers :
                       /\ wk[w].key = KeyOf(t)
                       /\ wk[w].q \in {NoQ, queues[KeyOf(t)]}

\* The race: a worker has seen its queue empty and is about to take the lock
\* to retire, and a submit has meanwhile enqueued a task and released the lock.
C2_Witness ==
    \E t \in TaskIds : \E w \in LiveWorkers :
        /\ lock = 0
        /\ st[t] = "queued"
        /\ wk[w].key = KeyOf(t)
        /\ wk[w].pc = "cleanup"

\* C4: for two tasks of one key, the one whose put took effect first has
\* finished and has its TaskResult completed before the other starts.
C4_FifoPerKey ==
    \A k \in Keys : \A a, b \in 1..Len(enq[k]) :
        (a < b /\ Started(enq[k][b])) =>
            (Completed(enq[k][a]) /\ res[enq[k][a]].event)

\* Two request threads submitted under the same key while neither task had
\* run; the first is complete and the second is running.
C4_Witness ==
    \E k \in Keys :
        /\ Len(enq[k]) >= 2
        /\ enq[k][1][1] # enq[k][2][1]
        /\ Completed(enq[k][1])
        /\ st[enq[k][2]] = "running"

\* C6: every TaskResult is completed at most once, by the worker that ran its
\* task, a worker of the task's key, with a value or an error and never both.
C6_CompletedOnce ==
    \A t \in TaskIds :
        /\ res[t].nset + res[t].nerr <= 1
        /\ res[t].event <=> (res[t].nset + res[t].nerr = 1)
        /\ Completed(t) <=> res[t].event
        /\ ~(res[t].value # None /\ res[t].error # "None")
        /\ res[t].nset = 1 => res[t].error = "None"
        /\ res[t].nerr = 1 => (res[t].error # "None" /\ res[t].value = None)
        /\ res[t].event => (res[t].byw = res[t].ranby /\ res[t].bykey = KeyOf(t))

\* One result was completed with a value and another with an error.
C6_Witness ==
    \E t1, t2 \in TaskIds :
        /\ res[t1].event /\ res[t1].nset = 1 /\ res[t1].value # None
        /\ res[t2].event /\ res[t2].nerr = 1

\* C3: under fair scheduling every submitted task is eventually executed and
\* its TaskResult completed, also when it is submitted after the key's worker
\* has retired or while that worker is retiring.
C3_EveryTaskCompletes ==
    \A t \in TaskIds : (st[t] = "queued") ~> (Completed(t) /\ res[t].event)

\* Step B has been enqueued after the worker that ran step A drained its queue
\* and retired: the key is inactive and the submit is about to start a worker.
C3_Witness ==
    \E c \in Callers :
        /\ cl[c].pc = "actB"
        /\ st[<<c, "B">>] = "queued"
        /\ Completed(<<c, "A">>)
        /\ ~active[CallKey(c)]
        /\ queues[CallKey(c)] # NoQ

\* C5: tasks of another key are started and completed even if a task under
\* the key of identifier 1 never finishes.
C5_OtherKeysProgress ==
    \A t \in TaskIds :
        (st[t] = "queued" /\ cl[t[1]].id # 1) ~> (Completed(t) /\ res[t].event)

\* Builders of two different identifiers are in progress at the same time.
C5_Witness ==
    \E w1, w2 \in WorkerIds :
        Building(w1) /\ Building(w2) /\ IdOf(w1) # IdOf(w2)

\* A get() returned in this step of request thread c.
GetReturned(c) == cl[c].pc \in {"waitA", "waitB"} /\ cl'[c].pc \notin {"waitA", "waitB"}

C7_Step ==
    /\ \A t \in TaskIds :
           res[t].event => /\ res'[t].event
                           /\ res'[t].value = res[t].value
                           /\ res'[t].error = res[t].error
    /\ \A c \in Callers :
           GetReturned(c) =>
               LET t == TaskOf(c)
               IN /\ res[t].event
                  /\ Completed(t)
                  /\ IF st[t] = "failed"
                     THEN /\ res[t].error # "None"
                          /\ cl'[c].pc = "raised"
                          /\ cl'[c].ret = res[t].error
                     ELSE /\ cl'[c].pc # "raised"
                          /\ t[2] = "A" => /\ cl'[c].title = res[t].value
                                           /\ cl'[c].title = AlbumName(cl[c].id)

\* C7: once a TaskResult has an outcome it never changes, and a get() returns
\* only after the task has completed, with the value the task returned or the
\* error it raised, never a half-written outcome.
C7_OutcomeImmutable == [][C7_Step]_vars

\* One get() has returned a title and another has raised.
C7_Witness ==
    \E c1, c2 \in Callers :
        /\ cl[c1].pc = "subB" /\ cl[c1].title = AlbumName(cl[c1].id)
        /\ cl[c2].pc = "raised" /\ cl[c2].ret = "ProviderError"

C8_Step ==
    /\ \A t \in TaskIds :
           /\ res'[t].error # "None" => st'[t] \in {"raised", "failed"}
           /\ st'[t] = "failed" => (res'[t].error # "None" /\ res'[t].event)
    /\ \A w \in WorkerIds :
           (wk[w].pc = "set_event" /\ wk[w].err # "None" /\ wk'[w] # wk[w]) =>
               /\ wk'[w].pc = "lookup"
               /\ wk'[w].key = wk[w].key
               /\ UNCHANGED <<queues, qitems, active>>

\* C8: an error raised by a task is stored in that task's TaskResult and in no
\* other; the worker stays alive, keeps the queue, and every task of the key
\* that is pending after a failure is still executed.
C8_FailureNotSticky ==
    /\ [][C8_Step]_vars
    /\ \A t \in TaskIds :
           (st[t] = "queued" /\ \E f \in TaskIds : st[f] = "failed" /\ KeyOf(f) = KeyOf(t))
               ~> (Completed(t) /\ res[t].event)

\* A task failed and a task enqueued after it under the same key has been
\* executed and completed with a value.
C8_Witness ==
    \E k \in Keys : \E a, b \in 1..Len(enq[k]) :
        /\ a < b
        /\ st[enq[k][a]] = "failed"
        /\ st[enq[k][b]] = "done"
        /\ res[enq[k][b]].error = "None"

\* Both calls name the same identifier and title_type and ask for encryption.
SameEncryptedRequest ==
    /\ cl[1].id = cl[2].id
    /\ cl[1].tt = cl[2].tt
    /\ cl[1].pwd /\ cl[2].pwd

C10_Step ==
    /\ \A w \in WorkerIds :
           (wk[w].pc = "v_probe" /\ wk'[w] # wk[w]) =>
               LET c == wk[w].task[1]
               IN cl'[c].hit <=> (fs[cl[c].path].k # "absent"
                                  /\ Valid(fs[cl[c].path], cl[c].pwd, cl[c].id))
    /\ \A w \in WorkerIds :
           (Running(w) /\ wk[w].task[2] = "B" /\ cl'[wk[w].task[1]].hit /\ wk'[w] # wk[w]) =>
               /\ UNCHANGED <<fs, nbuild>>
               /\ wk'[w].pc \in {"set", "set_event", "lookup"}
               /\ wk'[w].err = "None"
    /\ \A c \in Callers : cl'[c].hit => cl'[c].pc # "raised"

\* C10: when the probe of validate_or_build finds a file that satisfies the
\* request, the task ends without invoking merge_webp_to_pdf and without
\* removing or changing the file, and the call returns normally.
C10_CacheHit == [][C10_Step]_vars

\* A call that asked for encryption has returned after a cache hit, the
\* encrypted artifact in place.
C10_Witness ==
    \E c \in Callers :
        /\ cl[c].hit /\ cl[c].pwd
        /\ cl[c].pc = "returned"
        /\ fs[cl[c].path] = Enc(cl[c].id)

\* The probe of call c found a file that does not satisfy the request and
\* validate_or_build has ended.
InvalidatedAndEnded(c) == cl[c].probe = "invalid" /\ Completed(<<c, "B">>)

C12_ReturnedValid ==
    \A c \in Callers : cl[c].pc = "returned" => cl[c].fin = "valid"

\* C13: when merge_webp_to_pdf has raised in validate_or_build and the error
\* has been raised to the caller of get_album_pdf_path, the destination path
\* did not exist when validate_or_build ended: a failed build leaves no file.
C13_FailedBuildLeavesNothing ==
    \A c \in Callers :
        (cl[c].pc = "raised" /\ cl[c].built) => cl[c].fin = "raised_absent"

\* C14: within one call validate_or_build is submitted only after ensure_title
\* has completed with a value; when ensure_title fails, the error is what the
\* call raises, validate_or_build is never submitted and neither the probe of
\* the destination, nor os.remove, nor the builder runs for that call.
C14_StepBAfterStepA ==
    \A c \in Callers :
        LET a == <<c, "A">>
            b == <<c, "B">>
        IN /\ st[b] # "new" => (st[a] = "done" /\ res[a].event /\ res[a].error = "None")
           /\ st[a] \in {"raised", "failed"} =>
                  /\ st[b] = "new"
                  /\ cl[c].pc \in {"actA", "waitA", "raised"}
                  /\ cl[c].probe = "none" /\ cl[c].rm = "none" /\ ~cl[c].built
                  /\ cl[c].path = NoPath
           /\ (st[a] = "failed" /\ cl[c].pc = "raised") => cl[c].ret = res[a].error

\* download_album raised for one call, which has raised to its caller without
\* submitting validate_or_build, while the other call went through both steps.
C14_Witness ==
    \E c, d \in Callers :
        /\ cl[c].pc = "raised" /\ cl[c].ret = "ProviderError"
        /\ st[<<c, "A">>] = "failed" /\ st[<<c, "B">>] = "new"
        /\ cl[d].pc = "returned" /\ st[<<d, "B">>] = "done"

\* Both calls name the same identifier and differ in enable_pwd.
SameIdOtherPwd == cl[1].id = cl[2].id /\ cl[1].pwd # cl[2].pwd
BothReturned == cl[1].pc = "returned" /\ cl[2].pc = "returned"
\* The position of task t in the order of the puts under its key.
EnqPos(t) == CHOOSE n \in 1..Len(enq[KeyOf(t)]) : enq[KeyOf(t)][n] = t
\* Call c's validate_or_build was enqueued after call d's.
RunsSecond(c, d) == EnqPos(<<c, "B">>) > EnqPos(<<d, "B">>)

C16_Removed == {"\\", "/", ":", "*", "?", "\"", "<", ">", "|"}
RECURSIVE C16_Kept(_)
\* title with every character of C16_Removed deleted, the others in order
C16_Kept(title) ==
    IF title = <<>> THEN <<>>
    ELSE IF Head(title) \in C16_Removed THEN C16_Kept(Tail(title))
    ELSE <<Head(title)>> \o C16_Kept(Tail(title))
C16_Pdf == <<".", "p", "d", "f">>

\* C16: title_type 0 gives "I.pdf", 1 gives "sanitize(T).pdf", every other
\* value gives "[I] sanitize(T).pdf", sanitize deleting exactly the characters
\* \ / : * ? " < > | and keeping the others in order; pdf_path is the resolved,
\* absolute pdf_dir with the file name as its last component.
C16_FilenameModes ==
    \A c \in DOMAIN cl :
        cl[c].pc = "named" =>
            LET t == cl[c].title
                f == cl[c].pdf_filename
                p == cl[c].pdf_path
                kept == C16_Kept(t)
            IN /\ cl[c].tt = 0 => f = IdStr(cl[c].id) \o C16_Pdf
               /\ cl[c].tt = 1 => f = kept \o C16_Pdf
               /\ cl[c].tt \notin {0, 1} =>
                      f = <<"[">> \o IdStr(cl[c].id) \o <<"]", " ">> \o kept \o C16_Pdf
               /\ \A n \in 1..Len(kept) : kept[n] \notin C16_Removed
               /\ (\A n \in 1..Len(t) : t[n] \notin C16_Removed) => kept = t
               /\ Len(p) >= 2 /\ p[1] = "/" /\ p[Len(p)] = f
               /\ \A n \in 1..(Len(p) - 1) : p[n] # ".."
               /\ SubSeq(p, 1, Len(p) - 1) =
                      (IF cl[c].pdf_dir[1] = "/" THEN cl[c].pdf_dir
                       ELSE IF cl[c].pdf_dir[1] = ".." THEN <<"/", "srv", "pdf">>
                       ELSE <<"/", "srv", "app", "pdf">>)

\* A title mixing removed and kept characters was named with a title_type
\* outside 0..2 under a relative pdf_dir.
C16_Witness ==
    \E c \in DOMAIN cl :
        /\ cl[c].pc = "named"
        /\ cl[c].tt = 3
        /\ cl[c].title = <<":", "a">>
        /\ cl[c].pdf_dir = <<"..", "pdf">>
        /\ cl[c].pdf_filename = <<"[">> \o IdStr(cl[c].id) \o <<"]", " ", "a", ".", "p", "d", "f">>

C17_Step ==
    /\ \A w \in WorkerIds :
           (wk[w].pc = "title_probe" /\ wk'[w] # wk[w]) =>
               LET i == IdOf(w)
               IN IF folder[i]
                  THEN /\ ndl' = ndl
                       /\ wk'[w].pc = "set" /\ wk'[w].err = "None"
                       /\ wk'[w].val = is_jm_book_exist(i)
                       /\ wk'[w].val # None
                  ELSE /\ ndl' = [ndl EXCEPT ![i] = @ + 1]
                       /\ wk'[w].pc = "download"
    /\ \A w \in WorkerIds :
           (wk[w].pc = "download" /\ wk'[w] # wk[w]) =>
               /\ ndl' = ndl
               /\ wk'[w].pc = "set"
               /\ wk'[w].err = "None" => (wk'[w].val = AlbumName(IdOf(w)) /\ folder'[IdOf(w)])
    /\ \A i \in Ids :
           ndl'[i] # ndl[i] =>
               \E w \in WorkerIds : wk[w].pc = "title_probe" /\ IdOf(w) = i /\ ~folder[i]
    /\ \A c \in Callers :
           (cl[c].pc = "waitA" /\ cl'[c].pc = "subB") =>
               cl'[c].title = res[<<c, "A">>].value

\* C17: ensure_title calls download_album only when is_jm_book_exist finds no
\* materials folder for the identifier, then once, and returns the album's
\* name; when the probe finds a folder, download_album is not called and the
\* title found locally is returned; the call uses the title returned.
C17_EnsureTitle == [][C17_Step]_vars

\* Two calls for one identifier have their titles; download_album ran once,
\* for the first of them.
C17_Witness ==
    /\ cl[1].id = cl[2].id
    /\ \A c \in Callers : cl[c].pc = "subB" /\ cl[c].title = AlbumName(cl[c].id)
    /\ ndl[cl[1].id] = 1

\* C18: a call that failed because the provider has no such album is answered
\* with status 404, a call that failed in the builder with status 500.
C18_NotFoundIs404 ==
    \A c \in Callers :
        /\ cl[c].ret = "ProviderError" => cl[c].http = 404
        /\ cl[c].ret \in {"BuildError", "FileNotFoundError"} => cl[c].http = 500

\* The request thread c is inside submit / has submit behind it and waits in
\* get().
InSubmit(c) == cl[c].pc \in {"subA", "actA", "subB", "actB"}
SubmitReturned(c) == cl[c].pc \in {"waitA", "waitB"}

\* C19: global_lock is only ever held by a thread between the two halves of
\* submit, never by a worker that waits on its queue or runs a task; so every
\* submit returns its TaskResult, also while a task (here any task of
\* identifier 1) runs forever.
C19_SubmitNeverWaitsForTask ==
    /\ [](lock # 0 => (lock \in Callers /\ cl[lock].pc \in {"actA", "actB"}))
    /\ \A c \in Callers : InSubmit(c) ~> SubmitReturned(c)

\* A submit has returned while its own task is still queued behind a task of
\* the same key that is running.
C19_Witness ==
    \E c \in Callers : \E w \in WorkerIds :
        /\ cl[c].pc = "waitB"
        /\ st[<<c, "B">>] = "queued"
        /\ Building(w) /\ wk[w].task[1] # c /\ wk[w].key = CallKey(c)
        /\ lock = 0

\* The worker threads of key k that have not returned.
WorkersOf(k) == {w \in LiveWorkers : wk[w].key = k}
\* The task is being executed.
Executing(t) == st[t] \in {"running", "raised"}

C20_Step ==
    \A w \in WorkerIds :
        (wk[w].pc = "dead" /\ wk'[w].pc # "dead") =>
            /\ lock \in Callers /\ cl[lock].pc \in {"actA", "actB"}
            /\ wk'[w].key = CallKey(lock)
            /\ ~active[wk'[w].key] /\ active'[wk'[w].key]
            /\ WorkersOf(wk'[w].key) = {}

\* C20: every key has at most one worker, which exists exactly while the key
\* is marked active; a worker is started only by a submit that finds the key
\* inactive; a worker that has cleared the flag runs nothing more; no two
\* tasks of one key are executing at the same time.
C20_OneWorkerPerKey ==
    /\ [](\A k \in Keys :
             /\ Cardinality(WorkersOf(k)) <= 1
             /\ active[k] <=> WorkersOf(k) # {}
             /\ Cardinality({t \in TaskIds : Executing(t) /\ KeyOf(t) = k}) <= 1)
    /\ [](\A w \in WorkerIds : (Running(w) \/ wk[w].pc = "get") => active[wk[w].key])
    /\ [][C20_Step]_vars

\* A submit holds the lock with its task enqueued and finds the key active,
\* while the key's only worker has timed out on the empty queue and is about
\* to take the lock for its cleanup.
C20_Witness ==
    \E c \in Callers : \E w \in WorkerIds :
        /\ lock = c /\ cl[c].pc = "actB"
        /\ active[CallKey(c)]
        /\ WorkersOf(CallKey(c)) = {w}
        /\ wk[w].pc = "cleanup"

\* C21: when the probe of validate_or_build finds a file that does not satisfy
\* the request, merge_webp_to_pdf is invoked in that same task whether
\* os.remove succeeded or failed; a failed removal does not stop the rebuild.
C21_InvalidAlwaysRebuilt ==
    \A c \in Callers :
        (InvalidatedAndEnded(c) /\ cl[c].rm \in {"ok", "failed"}) => cl[c].built

\* Call c has returned a path that its route has not read yet.
Unread(c) == cl[c].pc = "returned" /\ cl[c].rd = "none"

C22_Step ==
    \A c \in Callers : \A w \in WorkerIds :
        (Unread(c) /\ Running(w) /\ wk[w].task[1] # c /\ IdOf(w) = cl[c].id /\ wk'[w] # wk[w]) =>
            fs'[cl[c].path] = fs[cl[c].path]

\* C22: between the return of get_album_pdf_path and the route's read of the
\* returned path, no validate_or_build of another request for the same
\* identifier removes or rewrites the file at that path.
C22_NoRewriteWhileConsumed == [][C22_Step]_vars

\* The probe of call c ran into an error: PdfReader raised, or decrypt raised
\* or returned false.
ProbeFailed(c) == cl[c].found \in {"reader_error", "decrypt_failed"}

C23_Step ==
    \A w \in WorkerIds :
        (wk[w].pc = "v_probe" /\ wk'[w] # wk[w]) =>
            LET c == wk[w].task[1]
                f == fs[cl[c].path]
            IN (f.k = "corrupt" \/ (f.k = "enc" /\ cl[c].pwd /\ f.pw # cl[c].id)) =>
                   /\ ProbeFailed(c)'
                   /\ cl'[c].probe = "invalid"
                   /\ ~cl'[c].use_cache
                   /\ wk'[w].pc = "v_remove"
                   /\ wk'[w].err = "None"
                   /\ st'[wk[w].task] = "running"
                   /\ UNCHANGED fs

HasQueue(k) == queues[k] # NoQ

C24_Step ==
    \A k \in Keys :
        /\ (~HasQueue(k) /\ HasQueue(k)') =>
               /\ lock = 0 /\ lock' \in Callers /\ CallKey(lock') = k
               /\ Len(qitems'[queues'[k]]) = 1
               /\ queues'[k] \notin {wk[w].q : w \in LiveWorkers}
        /\ (HasQueue(k) /\ ~HasQueue(k)') =>
               /\ lock = 0 /\ active[k] /\ ~active'[k]
               /\ QEmpty(queues[k])
               /\ \E w \in WorkerIds : wk[w].key = k /\ wk[w].pc = "cleanup" /\ wk'[w].pc = "dead"
        /\ (~active[k] /\ active'[k]) =>
               /\ lock \in Callers /\ CallKey(lock) = k /\ HasQueue(k)
               /\ \E w \in WorkerIds : wk[w].pc = "dead" /\ wk'[w].pc = "lookup" /\ wk'[w].key = k
        /\ (active[k] /\ ~active'[k]) => ~HasQueue(k)'

\* C24: whenever global_lock is free, a key has an entry in queues exactly
\* when active[key] is set; the entry is created by a submit, which activates
\* the key before it releases the lock, and removed only by the retiring
\* worker together with the flag, on an empty queue; a submit after that
\* registers a new queue and starts a new worker, and a worker that looks up
\* its key's queue always finds one.
C24_QueueIffActive ==
    /\ [](lock = 0 => \A k \in Keys : HasQueue(k) <=> active[k])
    /\ [](\A w \in WorkerIds : wk[w].pc = "lookup" => HasQueue(wk[w].key))
    /\ [][C24_Step]_vars

\* The worker that ran ensure_title of a call has retired on its empty queue;
\* the call's second submit has registered a new queue and started a new
\* worker, which has not yet looked the queue up.
C24_Witness ==
    \E c \in Callers : \E w \in WorkerIds :
        /\ lock = 0
        /\ cl[c].pc = "waitB" /\ st[<<c, "B">>] = "queued"
        /\ Completed(<<c, "A">>)
        /\ WorkersOf(CallKey(c)) = {w}
        /\ wk[w].fresh /\ wk[w].pc = "lookup"
        /\ HasQueue(CallKey(c)) /\ active[CallKey(c)]
        /\ \A d \in Callers : d # c => cl[d].id # cl[c].id

C25_Step ==
    \A c \in Callers :
        (lock = c /\ cl[c].pc \in {"actA", "actB"} /\ cl'[c].pc # cl[c].pc
         /\ ~active[CallKey(c)]) =>
            /\ active'[CallKey(c)]
            /\ \E w \in WorkerIds :
                   wk[w].pc = "dead" /\ wk'[w].pc = "lookup" /\ wk'[w].key = CallKey(c)
            /\ ActiveKeys' = ActiveKeys \cup {CallKey(c)}

\* C25: a submit under a key that has no active worker starts a worker before
\* it releases the lock, however many other keys are active, also when that
\* number has reached worker_count.
C25_NoCapOnActiveKeys == [][C25_Step]_vars

\* More keys are active, each with its live worker, than worker_count.
C25_Witness ==
    /\ Cardinality(ActiveKeys) > worker_count
    /\ \A k \in ActiveKeys : \E w \in LiveWorkers : wk[w].key = k /\ Running(w)

\* download_album is in progress in worker w
Downloading(w) == wk[w].pc = "download"

\* C26: for concurrent calls with one identifier and no materials on disk, no
\* two download_album calls for the identifier are in progress at the same
\* time; if the ensure_title that runs first succeeds, download_album has been
\* invoked exactly once for the identifier, and every later ensure_title finds
\* the folder, returns its title and does not fail.
C26_OneDownload ==
    /\ \A w1, w2 \in WorkerIds :
           (Downloading(w1) /\ Downloading(w2) /\ w1 # w2) => IdOf(w1) # IdOf(w2)
    /\ \A i \in Ids :
           LET k == Key(i)
           IN (Len(enq[k]) >= 1 /\ st[enq[k][1]] = "done") =>
                  /\ enq[k][1][2] = "A"
                  /\ folder[i]
                  /\ ndl[i] = 1
                  /\ ~\E w \in WorkerIds : Downloading(w) /\ IdOf(w) = i
                  /\ \A n \in 2..Len(enq[k]) :
                         (enq[k][n][2] = "A" /\ Started(enq[k][n])) =>
                             st[enq[k][n]] \in {"running", "done"}
                  /\ \A n \in 2..Len(enq[k]) :
                         (enq[k][n][2] = "A" /\ st[enq[k][n]] = "done") =>
                             res[enq[k][n]].value = AlbumName(i)

\* Two calls with one identifier submitted ensure_title one behind the other;
\* the first downloaded, the second found the folder; one download in all.
C26_Witness ==
    \E i \in Ids :
        /\ Len(enq[Key(i)]) >= 2
        /\ enq[Key(i)][1][2] = "A" /\ enq[Key(i)][2][2] = "A"
        /\ st[enq[Key(i)][1]] = "done" /\ st[enq[Key(i)][2]] = "done"
        /\ res[enq[Key(i)][2]].value = AlbumName(i)
        /\ ndl[i] = 1

\* worker w is inside validate_or_build (probe, os.remove, re-check or build)
Validating(w) == wk[w].pc \in {"v_probe", "v_remove", "v_recheck", "merge_save", "merge_write"}
\* the destination path of the call whose task worker w is running
PathOf(w) == cl[wk[w].task[1]].path

\* C27: the validate_or_build tasks of two calls with different identifiers
\* never work on the same destination path, whatever title_type and titles:
\* calls with different identifiers have different destinations.
C27_PathsExclusiveAcrossKeys ==
    /\ \A w1, w2 \in WorkerIds :
           (Validating(w1) /\ Validating(w2) /\ IdOf(w1) # IdOf(w2)) => PathOf(w1) # PathOf(w2)
    /\ \A c, d \in Callers :
           (cl[c].id # cl[d].id /\ cl[c].path # NoPath /\ cl[d].path # NoPath) =>
               cl[c].path # cl[d].path

\* ------------------------------------------------------------ materials folder
\* is_jm_book_exist and the folder name validate_or_build derives, character
\* by character: one call, for identifiers with and without the "JM" prefix
\* and a base_dir holding one directory, named "[id]title" with a title up to
\* MaxTitleLen over FolderTitleChars, or named otherwise.
RECURSIVE LStrip(_)
LStrip(s) == IF s = <<>> THEN s ELSE IF Head(s) = " " THEN LStrip(Tail(s)) ELSE s
RECURSIVE RStrip(_)
RStrip(s) == IF s = <<>> THEN s
             ELSE IF s[Len(s)] = " " THEN RStrip(SubSeq(s, 1, Len(s) - 1)) ELSE s
\* str.strip()
strip(s) == RStrip(LStrip(s))
StartsWith(s, p) == Len(s) >= Len(p) /\ SubSeq(s, 1, Len(p)) = p
\* str.removeprefix(p)
removeprefix(s, p) == IF StartsWith(s, p) THEN SubSeq(s, Len(p) + 1, Len(s)) ELSE s
\* str.find(ch), counting positions from 1; 0 when ch does not occur
find(s, ch) == IF \E n \in 1..Len(s) : s[n] = ch
               THEN Min({n \in 1..Len(s) : s[n] = ch}) ELSE 0

\* Python's None as the result of is_jm_book_exist (a title may be empty)
NoBook == <<"None">>
\* is_jm_book_exist for a base_dir whose only directory is called name:
\* re.compile(rf"\[{clean_id}\]").match(name), then the text after the first
\* "]", stripped.
book_title(name, jm_album_id) ==
    LET clean_id == removeprefix(jm_album_id, <<"J", "M">>)
    IN IF StartsWith(name, <<"[">> \o clean_id \o <<"]">>)
       THEN strip(SubSeq(name, find(name, "]") + 1, Len(name)))
       ELSE NoBook
\* the last component of webp_folder: f"[{jm_album_id}]{title}"
webp_folder(jm_album_id, title) == <<"[">> \o jm_album_id \o <<"]">> \o title

FolderTitleChars == {"a", " "}
FolderTitles == UNION {[1..n -> FolderTitleChars] : n \in 1..MaxTitleLen}
RequestIds == {IdStr(i) : i \in Ids} \cup {<<"J", "M">> \o IdStr(i) : i \in Ids}
DirNames == {<<"[">> \o id \o <<"]">> \o t : id \in RequestIds, t \in FolderTitles}
                \cup {<<"t", "m", "p">>}
FolderCall(id, name) ==
    [pc |-> "probe", id |-> id, dir |-> name, found |-> FALSE, title |-> <<>>,
     webp_folder |-> <<>>]

FolderInit ==
    /\ InitExecutor
    /\ cl \in {[c \in {1} |-> FolderCall(id, name)] : id \in RequestIds, name \in DirNames}

\* ensure_title: t = is_jm_book_exist(base_dir, jm_album_id); a title found
\* is returned, otherwise the call goes on to download_album.
FolderProbe(c) ==
    /\ cl[c].pc = "probe"
    /\ LET t == book_title(cl[c].dir, cl[c].id)
       IN IF t = NoBook
          THEN cl' = [cl EXCEPT ![c].pc = "download"]
          ELSE cl' = [cl EXCEPT ![c].pc = "titled", ![c].found = TRUE, ![c].title = t]
    /\ UNCHANGED <<execVars, wk, res, st, enq, diskVars>>

\* validate_or_build: webp_folder = str(Path(base_dir) / f"[{jm_album_id}]{title}")
FolderJoin(c) ==
    /\ cl[c].pc = "titled"
    /\ cl' = [cl EXCEPT ![c].pc = "joined",
                        ![c].webp_folder = webp_folder(cl[c].id, cl[c].title)]
    /\ UNCHANGED <<execVars, wk, res, st, enq, diskVars>>

FolderNext == (\E c \in DOMAIN cl : FolderProbe(c)) \/ (\E c \in DOMAIN cl : FolderJoin(c))

FolderSpec == FolderInit /\ [][FolderNext]_vars

\* C28: when is_jm_book_exist found a local folder, the folder name that
\* validate_or_build builds from the request's identifier and the returned
\* title is the name of the folder the probe matched, also for identifiers
\* that start with "JM" and for folder titles with leading or trailing blanks.
C28_FolderIsTheOneProbed ==
    \A c \in DOMAIN cl :
        (cl[c].pc = "joined" /\ cl[c].found) => cl[c].webp_folder = cl[c].dir

\* ------------------------------------------------------------ file_lock
\* Threads or processes that each enter `with file_lock(name)` once.  The
\* lock directories are kept in fs, by name: absent, or made by a contender.
LockProcs == {1, 2, 3}
LockNames == {"x", "y"}
NoDir == [k |-> "absent", by |-> 0]
LockDir(p) == [k |-> "dir", by |-> p]
\* lock_path = DEFAULT_LOCK_DIR / f"{name}.lock"; start = time.time();
\* waited is time.time() - start in poll intervals (capped above the timeout),
\* exc whether the body raised, rmdir how the cleanup ended.
LockCall(n) == [pc |-> "mkdir", name |-> n, waited |-> 0, exc |-> FALSE, rmdir |-> "none"]

LockInit ==
    /\ lock = 0
    /\ queues = [k \in Keys |-> NoQ]
    /\ qitems = [q \in QIds |-> <<>>]
    /\ active = [k \in Keys |-> FALSE]
    /\ wk = [w \in WorkerIds |-> DeadWorker]
    /\ res = [t \in TaskIds |-> NewResult]
    /\ st = [t \in TaskIds |-> "new"]
    /\ enq = [k \in Keys |-> <<>>]
    /\ folder = [i \in Ids |-> FALSE]
    /\ nbuild = [i \in Ids |-> 0]
    /\ ndl = [i \in Ids |-> 0]
    /\ fs = [n \in LockNames |-> NoDir]
    /\ cl \in [LockProcs -> {LockCall(n) : n \in LockNames}]

\* Variant of LockMkdir: the directory is made with exist_ok=True.
LockMkdirExistOk(p) ==
    /\ cl[p].pc = "mkdir"
    /\ fs' = [fs EXCEPT ![cl[p].name] = LockDir(p)]
    /\ cl' = [cl EXCEPT ![p].pc = "body"]
    /\ UNCHANGED <<execVars, wk, res, st, enq, folder, nbuild, ndl>>

\* lock_path.mkdir(exist_ok=False): the directory is made and the loop left,
\* or FileExistsError is caught.
LockMkdir(p) ==
    /\ cl[p].pc = "mkdir"
    /\ IF fs[cl[p].name].k = "absent"
       THEN /\ fs' = [fs EXCEPT ![cl[p].name] = LockDir(p)]
            /\ cl' = [cl EXCEPT ![p].pc = "body"]
       ELSE /\ cl' = [cl EXCEPT ![p].pc = "exists"]
            /\ UNCHANGED fs
    /\ UNCHANGED <<execVars, wk, res, st, enq, folder, nbuild, ndl>>

\* except FileExistsError: if (time.time() - start) > timeout: raise
\* TimeoutError; otherwise time.sleep(poll_interval) is entered.
LockCheckTimeout(p) ==
    /\ cl[p].pc = "exists"
    /\ cl' = [cl EXCEPT ![p].pc = IF cl[p].waited > LockTimeout THEN "timeout" ELSE "sleep"]
    /\ UNCHANGED <<execVars, wk, res, st, enq, diskVars>>

\* time.sleep(poll_interval): one poll interval passes, or more when the
\* thread is held up.
LockSleep(p) ==
    /\ cl[p].pc = "sleep"
    /\ \E d \in {1, 2} :
           cl' = [cl EXCEPT ![p].pc = "mkdir",
                            ![p].waited = IF @ + d > LockTimeout THEN LockTimeout + 1 ELSE @ + d]
    /\ UNCHANGED <<execVars, wk, res, st, enq, diskVars>>

\* yield: the body of the with statement ends, normally or by an exception.
LockBodyExit(p) ==
    /\ cl[p].pc = "body"
    /\ \E e \in BOOLEAN : cl' = [cl EXCEPT ![p].pc = "cleanup", ![p].exc = e]
    /\ UNCHANGED <<execVars, wk, res, st, enq, diskVars>>

\* finally: the files in the directory are unlinked and lock_path.rmdir() is
\* called; an OSError (a file that cannot be unlinked, rmdir refused) is
\* passed over and the directory stays.
LockCleanup(p) ==
    /\ cl[p].pc = "cleanup"
    /\ \/ /\ fs' = [fs EXCEPT ![cl[p].name] = NoDir]
          /\ cl' = [cl EXCEPT ![p].pc = IF cl[p].exc THEN "raised" ELSE "done", ![p].rmdir = "ok"]
       \/ /\ UNCHANGED fs
          /\ cl' = [cl EXCEPT ![p].pc = IF cl[p].exc THEN "raised" ELSE "done",
                              ![p].rmdir = "failed"]
    /\ UNCHANGED <<execVars, wk, res, st, enq, folder, nbuild, ndl>>

LockStep(p) ==
    \/ LockMkdir(p)
    \/ LockCheckTimeout(p)
    \/ LockSleep(p)
    \/ LockBodyExit(p)
    \/ LockCleanup(p)

LockNext == \E p \in LockProcs : LockStep(p)

LockSpec == LockInit /\ [][LockNext]_vars

\* the contenders inside the body of `with file_lock(n)`
InBody(n) == {p \in LockProcs : cl[p].name = n /\ cl[p].pc = "body"}
\* the contender has left the with statement after holding the lock
Left(p) == cl[p].pc \in {"done", "raised"}
\* the contender holds the lock: from its mkdir to the end of its cleanup
Holding(p) == cl[p].pc \in {"body", "cleanup"}

C29_Step ==
    /\ \A p \in LockProcs :
           (cl[p].pc # "timeout" /\ cl'[p].pc = "timeout") =>
               /\ cl[p].waited > LockTimeout
               /\ cl[p].pc = "exists"
               /\ cl[p].rmdir = "none" /\ cl'[p].rmdir = "none"
               /\ fs' = fs
    /\ \A n \in LockNames :
           /\ (fs[n].k = "absent" /\ fs'[n].k = "dir") =>
                  (cl[fs'[n].by].pc = "mkdir" /\ cl'[fs'[n].by].pc = "body")
           /\ (fs[n].k = "dir" /\ fs'[n] # fs[n]) =>
                  /\ fs'[n].k = "absent"
                  /\ cl[fs[n].by].pc = "cleanup"
                  /\ cl'[fs[n].by].pc \in {"done", "raised"}
    /\ \A p \in LockProcs :
           (cl[p].pc # "body" /\ cl'[p].pc = "body") => fs[cl[p].name].k = "absent"

\* C29 as stated: at most one contender is inside the body for a name; a
\* contender raises TimeoutError only after more than timeout has passed,
\* without entering and without touching the holder's directory; and when a
\* holder has left the with statement, normally or by exception, its lock
\* directory is gone.
C29_MutexTimeoutRelease ==
    /\ [](\A n \in LockNames : Cardinality(InBody(n)) <= 1)
    /\ [][C29_Step]_vars
    /\ [](\A p \in LockProcs : Left(p) => fs[cl[p].name] # LockDir(p))

\* C29, amended: at most one contender is inside the body for a name; a
\* contender raises TimeoutError only after more than timeout has passed,
\* without entering and without touching the holder's directory; a directory
\* is removed only by the cleanup of the contender that made it.  When a
\* holder leaves the with statement, normally or by exception, the removal is
\* attempted once: if it succeeds the directory is gone and the lock can be
\* taken again; if it fails with an OSError the error is passed over, the
\* directory stays although nobody holds the lock, and no contender can take
\* the lock of that name afterwards.
C29_MutexTimeoutBestEffortRelease ==
    /\ [](\A n \in LockNames : Cardinality(InBody(n)) <= 1)
    /\ [](\A n \in LockNames :
             /\ Cardinality({p \in LockProcs : cl[p].name = n /\ Holding(p)}) <= 1
             /\ \A p \in LockProcs : (cl[p].name = n /\ Holding(p)) => fs[n] = LockDir(p))
    /\ [][C29_Step]_vars
    /\ [](\A p \in LockProcs :
             Left(p) =>
                 /\ cl[p].rmdir \in {"ok", "failed"}
                 /\ cl[p].rmdir = "ok" => fs[cl[p].name] # LockDir(p)
                 /\ cl[p].rmdir = "failed" =>
                        /\ fs[cl[p].name] = LockDir(p)
                        /\ \A q \in LockProcs :
                               (q # p /\ cl[q].name = cl[p].name) => ~Holding(q))

\* One contender left the body by an exception and removed its directory; a
\* second, which had found the directory present and slept, holds the lock
\* now; a third gave up with TimeoutError.
C29_Witness ==
    \E p, q, r \in LockProcs :
        /\ cl[p].name = cl[q].name /\ cl[q].name = cl[r].name
        /\ cl[p].pc = "raised" /\ cl[p].rmdir = "ok"
        /\ cl[q].pc = "body" /\ cl[q].waited > 0
        /\ cl[r].pc = "timeout"

\* ------------------------------------------------------------ PDF shards
\* GET /pdf/info and GET /pdf/shard of jmcomic_api_fast for one album with
\* total_pages images: one info request, then up to MaxShardRequests shard
\* requests with any index; the album's shard cache starts empty.
shard_size == 100
MaxShardRequests == 2
ShardIndexes == -1..4
\* math.ceil(total_pages / 100)
num_shards(total_pages) ==
    IF total_pages % shard_size = 0 THEN total_pages \div shard_size
    ELSE total_pages \div shard_size + 1
\* min(a, b)
min(a, b) == IF a <= b THEN a ELSE b
\* get_pdf_info, for i in range(num_shards):
\*   start_page = i * 100 + 1; end_page = min((i + 1) * 100, total_pages)
info_shard(i, total_pages) ==
    [shard_index |-> i + 1, start_page |-> i * 100 + 1,
     end_page |-> min((i + 1) * 100, total_pages)]
\* Variant of shard_start_page: the first page is counted from 0.
shard_start_pageFromZero(shard_index) == (shard_index - 1) * shard_size
\* get_pdf_shard: start_page = (shard_index - 1) * shard_size + 1
shard_start_page(shard_index) == (shard_index - 1) * shard_size + 1
\* get_pdf_shard: end_page = min(shard_index * shard_size, total_pages)
shard_end_page(shard_index, total_pages) == min(shard_index * shard_size, total_pages)

\* No shard request answered yet.
NoShardReply == [shard_index |-> 0, status |-> 0, start_page |-> 0, end_page |-> 0,
                 hit |-> FALSE]
ShardCall(n) == [pc |-> "info", total_pages |-> n, shards |-> <<>>, nreq |-> 0,
                 cache |-> {}, reply |-> NoShardReply]

ShardInit ==
    /\ InitExecutor
    /\ cl \in {[c \in {1} |-> ShardCall(n)] : n \in 0..MaxPages}

\* get_pdf_info: no shards for an album without images, otherwise the list
\* built by the loop.
GetPdfInfo(c) ==
    /\ cl[c].pc = "info"
    /\ LET n == cl[c].total_pages
       IN cl' = [cl EXCEPT ![c].pc = "shard",
                           ![c].shards = IF n = 0 THEN <<>>
                                         ELSE [j \in 1..num_shards(n) |-> info_shard(j - 1, n)]]
    /\ UNCHANGED <<execVars, wk, res, st, enq, diskVars>>

\* get_pdf_shard: the path parameter is declared gt=0, so the framework
\* answers any other index with 422 before the handler runs; a cached shard is
\* returned as it is; otherwise get_album_image_info_async raises
\* FileNotFoundError (404), or the index is checked against num_shards (404),
\* the page range computed, the shard generated, cached and returned.
GetPdfShard(c) ==
    /\ cl[c].pc = "shard"
    /\ cl[c].nreq < MaxShardRequests
    /\ \E i \in ShardIndexes :
           LET n == cl[c].total_pages
               r == [NoShardReply EXCEPT !.shard_index = i]
           IN IF ~(i > 0)
              THEN cl' = [cl EXCEPT ![c].nreq = @ + 1, ![c].reply = [r EXCEPT !.status = 422]]
              ELSE IF i \in cl[c].cache
              THEN cl' = [cl EXCEPT ![c].nreq = @ + 1,
                                    ![c].reply = [r EXCEPT !.status = 200, !.hit = TRUE]]
              ELSE \/ cl' = [cl EXCEPT ![c].nreq = @ + 1, ![c].reply = [r EXCEPT !.status = 404]]
                   \/ IF ~(1 <= i /\ i <= num_shards(n))
                      THEN cl' = [cl EXCEPT ![c].nreq = @ + 1,
                                            ![c].reply = [r EXCEPT !.status = 404]]
                      ELSE cl' = [cl EXCEPT ![c].nreq = @ + 1,
                                            ![c].cache = @ \cup {i},
                                            ![c].reply = [r EXCEPT
                                                !.status = 200,
                                                !.start_page = shard_start_page(i),
                                                !.end_page = shard_end_page(i, n)]]
    /\ UNCHANGED <<execVars, wk, res, st, enq, diskVars>>

ShardNext == (\E c \in DOMAIN cl : GetPdfInfo(c)) \/ (\E c \in DOMAIN cl : GetPdfShard(c))

ShardSpec == ShardInit /\ [][ShardNext]_vars

\* ceil(n / 100), by its definition: the least k with 100 * k >= n
C30_Ceil(n) == CHOOSE k \in 0..n : 100 * k >= n /\ \A j \in 0..(k - 1) : 100 * j < n

\* The shard list of GET /pdf/info for an album with at least one page: its
\* length, indexes, ranges, and their covering 1..total_pages without overlap.
C30_InfoList(c) ==
    LET n == cl[c].total_pages
        s == cl[c].shards
    IN (cl[c].pc = "shard" /\ n >= 1) =>
           /\ Len(s) = C30_Ceil(n)
           /\ \A i \in 1..Len(s) :
                  /\ s[i].shard_index = i
                  /\ s[i].start_page = (i - 1) * 100 + 1
                  /\ s[i].end_page = (IF i * 100 <= n THEN i * 100 ELSE n)
                  /\ s[i].start_page <= s[i].end_page
                  /\ s[i].end_page - s[i].start_page + 1 <= 100
                  /\ i < Len(s) => s[i + 1].start_page = s[i].end_page + 1
           /\ s[1].start_page = 1 /\ s[Len(s)].end_page = n
           /\ \A pg \in 1..n :
                  Cardinality({i \in 1..Len(s) : s[i].start_page <= pg /\ pg <= s[i].end_page}) = 1

\* A generated shard of GET /pdf/shard has the page range GET /pdf/info lists
\* for its index; a cached shard is one generated before.
C30_ShardRange(c) ==
    LET r == cl[c].reply
    IN (cl[c].total_pages >= 1 /\ r.status = 200) =>
           /\ r.shard_index \in 1..Len(cl[c].shards)
           /\ r.shard_index \in cl[c].cache
           /\ ~r.hit => /\ r.start_page = cl[c].shards[r.shard_index].start_page
                        /\ r.end_page = cl[c].shards[r.shard_index].end_page

\* C30 as stated: the shard list of GET /pdf/info partitions 1..total_pages
\* into ceil(total_pages/100) ranges of at most 100 pages, in order; GET
\* /pdf/shard computes the same range for the same index and answers every
\* index outside 1..n with 404.
C30_ShardsPartitionPages ==
    \A c \in DOMAIN cl :
        /\ C30_InfoList(c)
        /\ C30_ShardRange(c)
        /\ (cl[c].total_pages >= 1 /\ cl[c].reply.status # 0
            /\ cl[c].reply.shard_index \notin 1..num_shards(cl[c].total_pages)) =>
               cl[c].reply.status = 404

\* C30, amended: the shard list of GET /pdf/info partitions 1..total_pages
\* into ceil(total_pages/100) ranges of at most 100 pages, in order; GET
\* /pdf/shard computes the same range for the same index, answers an index
\* above n with 404, and an index below 1 is refused by the validation of the
\* path parameter with 422 before the handler runs.
C30_ShardsPartitionPagesIndexChecked ==
    \A c \in DOMAIN cl :
        /\ C30_InfoList(c)
        /\ C30_ShardRange(c)
        /\ (cl[c].total_pages >= 1 /\ cl[c].reply.status # 0) =>
               /\ cl[c].reply.shard_index > num_shards(cl[c].total_pages) =>
                      cl[c].reply.status = 404
               /\ cl[c].reply.shard_index < 1 => cl[c].reply.status = 422

\* An album of 201 pages: three shards listed, the last holding page 201
\* alone, and GET /pdf/shard has generated shard 3 with that range.
C30_Witness ==
    \E c \in DOMAIN cl :
        /\ cl[c].total_pages = 201
        /\ Len(cl[c].shards) = 3
        /\ cl[c].reply.shard_index = 3 /\ cl[c].reply.status = 200 /\ ~cl[c].reply.hit
        /\ cl[c].reply.start_page = 201 /\ cl[c].reply.end_page = 201

====
